---------------------------- MODULE Spec2Model ----------------------------
(***************************************************************************)
(* Shift-signup calendar with bulletin board (src/app.py).                 *)
(*                                                                         *)
(* The store (four Firestore collections), the process-wide read cache of  *)
(* get_firestore_data and the per-session state of st.session_state are    *)
(* the state.  Every browser session runs the script in a thread of its    *)
(* own, and the threads interleave wherever a run waits for Firestore:     *)
(*  - a call of get_firestore_data (the admin sidebar, show_calendar and   *)
(*    show_board_and_info each make one) is a lookup in the cache          *)
(*    (BeginSidebar, BeginRun, BeginBoard); on a miss the four queries     *)
(*    are sent one after the other, so the writes of other sessions fall   *)
(*    between them: a write that overtakes a read under way is either      *)
(*    seen by the query of its collection or comes after it (Overtake);    *)
(*    the call then returns and stores its value (Return), and the value   *)
(*    of a read that a clear() overtook goes to the cache cleared away;    *)
(*  - between the reads the run handles the widget event it was started    *)
(*    for: the lock buttons and the aggregation after the sidebar's read,  *)
(*    the month buttons and the calendar's controls after show_calendar's  *)
(*    read, the board form after show_board_and_info's read;               *)
(*  - a handler sends its write and waits (pc = "wrote"); when the write   *)
(*    is answered it clears the cache and asks for the rerun               *)
(*    (ClearAndRerun, pc = "run"); a widget event that arrives while a     *)
(*    rerun is pending is handled by the run that follows;                 *)
(*  - the aggregation streams the events and then the day statuses;        *)
(*  - the retention sweep queries the old board messages (Open) and then   *)
(*    commits the batch that deletes what the query returned               *)
(*    (cleanup_old_board_messages); the clock and the other sessions move  *)
(*    between the two;                                                     *)
(*  - of the browser page the model keeps which version of the lock        *)
(*    button, of the calendar and of the board form was rendered last      *)
(*    (for a locked or an unlocked month, or not at all): a control is     *)
(*    used only when the page has it.                                      *)
(***************************************************************************)
EXTENDS Integers, Sequences, FiniteSets

(* ------------------------------ bounds --------------------------------- *)
\* Number of signup documents the store holds at once.
MaxEvents == 4
\* Number of board documents the store holds at once.
MaxMsgs == 2
\* Number of writes of other sessions that a running script is overtaken by
\* between its read and its handler.
MaxBehind == 1

Sessions == {"s1", "s2"}
\* The months the sessions may navigate to, as <<year, month>>.
Months == {<<2024, 3>>, <<2024, 4>>}
\* The day cells that are modelled, as <<year, month, day>>.
Dates == {<<2024, 3, 1>>, <<2024, 3, 2>>, <<2024, 4, 1>>}
\* Text typed into the inputs, as sequences of characters: the name form,
\* the proxy-add form, the board form.
WelcomeInputs == {<< >>, <<" ">>, <<"a">>, <<" ", "a">>}
ProxyInputs == {<< >>, <<"a">>, <<"b">>}
BoardInputs == {<< >>, <<"a">>}
MessageInputs == {<< >>, <<"x">>}
Passwords == {"secret", "wrong"}
\* The sessions whose user knows the admin password.
AdminSessions == {"s1"}
\* Wall-clock instants (seconds after the first page load) the clock visits.
Day == 86400
Times == {0, 30, Day, 2 * Day, 15 * Day}

(* -------------------------- program constants -------------------------- *)
MAX_SHIFTS_PER_DAY == 3
TTL == 60
TwoWeeks == 14 * Day
AdminPassword == "secret"

MonthOf(date) == <<date[1], date[2]>>

VARIABLES
    events,        \* collection events: set of [doc, date, name]
    day_status,    \* collection day_status: date -> isHeld (absent = FALSE)
    month_locks,   \* collection month_locks: month -> isLocked (absent = FALSE)
    board,         \* collection bulletin_board: set of [doc, month, name, message, timestamp]
    cache,         \* st.cache_data of get_firestore_data: month -> entry
    now,           \* wall clock, seconds
    pc,            \* per session: where its script run stands ("idle": between runs)
    admin_mode,    \* st.session_state.admin_mode
    user_name,     \* st.session_state.user_name
    current_date,  \* st.session_state.current_date, as its month
    cleanup_done,  \* 'cleanup_done' in st.session_state
    sweeps,        \* per session: runs of cleanup_old_board_messages so far
    data,          \* per session: what show_calendar read in the running script
    behind,        \* per session: writes of other sessions since that read began
    done,          \* per session: queries of that read known to be answered (0..4)
    page,          \* per session: is_month_locked as the sidebar, the calendar and the board form on the browser page show it ("none": not rendered so far)
    notice,        \* the warning that the most recent script run displayed
    report         \* per session: the table perform_aggregation displayed

store == <<events, day_status, month_locks, board>>
session == <<admin_mode, user_name, current_date, cleanup_done, sweeps>>
vars == <<events, day_status, month_locks, board, cache, now,
          pc, admin_mode, user_name, current_date, cleanup_done, sweeps, data,
          behind, done, page, notice, report>>

NoEntry == [at |-> -1]
NoData == [none |-> TRUE]
NoReport == [none |-> TRUE]
NoPage == [sidebar |-> "none", calendar |-> "none", board |-> "none"]
\* What a widget rendered with is_month_locked shows.
Shown(is_month_locked) == IF is_month_locked THEN "locked" ELSE "unlocked"
RenderedUnlocked ==
    [sidebar |-> "unlocked", calendar |-> "unlocked", board |-> "unlocked"]

(* --------------------------- Month Data Reader -------------------------- *)
\* The four requests of get_firestore_data, in the order they are sent.
events_query(ev, m) == {e \in ev : MonthOf(e.date) = m}
day_status_query(ds, m) == [d \in {x \in Dates : MonthOf(x) = m} |-> ds[d]]
month_lock_doc(ml, m) == ml[m]
board_query(bd, m) == {b \in bd : b.month = m}

\* What the four requests return when no write falls between them.
Fetch(ev, ds, ml, bd, m) ==
    [events |-> events_query(ev, m),
     day_status |-> day_status_query(ds, m),
     is_month_locked |-> month_lock_doc(ml, m),
     board_messages |-> board_query(bd, m)]

\* The value d of a read under way, when request k (1 events, 2 day_status,
\* 3 month_locks, 4 bulletin_board) is answered from the given collections.
Answered(d, k, ev, ds, ml, bd, m) ==
    CASE k = 1 -> [d EXCEPT !.events = events_query(ev, m)]
      [] k = 2 -> [d EXCEPT !.day_status = day_status_query(ds, m)]
      [] k = 3 -> [d EXCEPT !.is_month_locked = month_lock_doc(ml, m)]
      [] OTHER -> [d EXCEPT !.board_messages = board_query(bd, m)]

\* An entry of the cache is served while it is younger than the ttl.
CacheHit(c, m) == c[m].at >= 0 /\ now - c[m].at < TTL

\* get_firestore_data(year, month): the value returned ...
get_firestore_data(c, ev, ds, ml, bd, m) ==
    IF CacheHit(c, m) THEN c[m].value ELSE Fetch(ev, ds, ml, bd, m)

\* ... and the cache it leaves behind.
Cached(c, ev, ds, ml, bd, m) ==
    IF CacheHit(c, m) THEN c
    ELSE [c EXCEPT ![m] = [at |-> now, value |-> Fetch(ev, ds, ml, bd, m)]]

\* st.cache_data.clear()
Cleared == [m \in Months |-> NoEntry]

(* ------------------------------ Init ----------------------------------- *)
\* datetime.now() of a session's first run: all modelled instants lie in the
\* first modelled month.
ThisMonth == <<2024, 3>>

Init ==
    /\ events = {}
    /\ day_status = [d \in Dates |-> FALSE]
    /\ month_locks = [m \in Months |-> FALSE]
    /\ board = {}
    /\ cache = Cleared
    /\ now = 0
    /\ pc = [s \in Sessions |-> "new"]
    /\ admin_mode = [s \in Sessions |-> FALSE]
    /\ user_name = [s \in Sessions |-> << >>]
    /\ current_date = [s \in Sessions |-> ThisMonth]
    /\ cleanup_done = [s \in Sessions |-> FALSE]
    /\ sweeps = [s \in Sessions |-> 0]
    /\ data = [s \in Sessions |-> NoData]
    /\ behind = [s \in Sessions |-> 0]
    /\ done = [s \in Sessions |-> 0]
    /\ page = [s \in Sessions |-> NoPage]
    /\ notice = "none"
    /\ report = [s \in Sessions |-> NoReport]

(* --------------------------- Bulletin Board ----------------------------- *)
\* two_weeks_ago = datetime.now() - timedelta(weeks=2)
two_weeks_ago == now - TwoWeeks

\* The documents the query of cleanup_old_board_messages selects.
OldMessages(bd, cutoff) == {b \in bd : b.timestamp < cutoff}

(* ------------------------- script runs, helpers ------------------------- *)
Max(a, b) == IF a >= b THEN a ELSE b

\* The sessions whose run holds a value of get_firestore_data. The requests
\* of a call are under way at "sget" (sidebar, line 294), "get"
\* (show_calendar, line 133) and "bget" (show_board_and_info, line 229), and
\* at "slost", "lost", "blost" once the cache the call looked up has been
\* cleared away; the value has been returned at "side", "cal" and "board".
Reading == {t \in Sessions : pc[t] \in {"sget", "slost", "get", "lost", "bget", "blost"}}
Holding == Reading \cup {t \in Sessions : pc[t] \in {"side", "cal", "board"}}

\* st.cache_data.clear() met by a call under way.
Lost(p) ==
    CASE p = "sget" -> "slost"
      [] p = "get" -> "lost"
      [] p = "bget" -> "blost"
      [] OTHER -> p

\* Where the run stands when the call returns.
Returned(p) ==
    CASE p \in {"sget", "slost"} -> "side"
      [] p \in {"get", "lost"} -> "cal"
      [] OTHER -> "board"

\* A write of session s to collection k (1 events, 2 day_status, 3 month_locks,
\* 4 bulletin_board) overtakes the runs of the other sessions: the request for
\* k of a read under way is answered after the write (seen: only while the
\* requests up to k are not known to be answered) or was answered before it,
\* and with it the requests sent earlier; a value returned is left behind.
Overtake(s, k) ==
    \E seen \in SUBSET {t \in Reading \ {s} : done[t] < k} :
        /\ \A t \in Holding \ ({s} \cup seen) : behind[t] < MaxBehind
        /\ behind' = [t \in Sessions |->
                        IF t = s \/ t \notin Holding THEN 0
                        ELSE IF t \in seen THEN behind[t] ELSE behind[t] + 1]
        /\ data' = [t \in Sessions |->
                      IF t = s THEN NoData
                      ELSE IF t \in seen
                           THEN Answered(data[t], k, events', day_status',
                                         month_locks', board', current_date[t])
                           ELSE data[t]]
        /\ done' = [t \in Sessions |->
                      IF t # s /\ t \in Reading /\ t \notin seen
                      THEN Max(done[t], k)
                      ELSE IF t = s THEN 0 ELSE done[t]]

\* A handler has sent its write to collection k and waits for the answer.
Written(s, k) ==
    /\ Overtake(s, k)
    /\ pc' = [pc EXCEPT ![s] = "wrote"]
    /\ UNCHANGED <<cache, page, notice, report>>

\* The write is answered: st.cache_data.clear(); st.rerun(). The reads under
\* way will store into the cache cleared away; the rerun is pending.
ClearAndRerun(s) ==
    /\ pc[s] = "wrote"
    /\ cache' = Cleared
    /\ pc' = [t \in Sessions |-> IF t = s THEN "run" ELSE Lost(pc[t])]
    /\ notice' = "none"
    /\ report' = [report EXCEPT ![s] = NoReport]
    /\ UNCHANGED <<store, now, session, data, behind, done, page>>

\* A call of get_firestore_data begins: the cache is looked up; its value is
\* returned (the run goes on at hit), or the first request is sent (miss).
Lookup(s, hit, miss) ==
    /\ data' = [data EXCEPT ![s] =
                  get_firestore_data(cache, events, day_status, month_locks,
                                     board, current_date[s])]
    /\ pc' = [pc EXCEPT ![s] = IF CacheHit(cache, current_date[s]) THEN hit ELSE miss]
    /\ behind' = [behind EXCEPT ![s] = 0]
    /\ done' = [done EXCEPT ![s] = 0]
    /\ UNCHANGED cache

\* get_firestore_data returns: the last request is answered and the value is
\* stored in the cache that the call looked up.
Return(s) ==
    /\ s \in Reading
    /\ cache' = IF pc[s] \in {"sget", "get", "bget"}
                THEN [cache EXCEPT ![current_date[s]] =
                        [at |-> now, value |-> data[s]]]
                ELSE cache
    /\ pc' = [pc EXCEPT ![s] = Returned(pc[s])]
    /\ done' = [done EXCEPT ![s] = 0]
    /\ UNCHANGED <<store, now, session, data, behind, page, notice, report>>

\* The run of s has passed the sidebar (an admin's sidebar has read the month)
\* and stands at the test of the sweep's flag.
PastSidebar(s) ==
    IF admin_mode[s] THEN pc[s] = "side" ELSE pc[s] \in {"new", "idle", "run"}

\* The run of s stands before the body of the page: the flag of the sweep is
\* set, or (at "main") the sweep or the aggregation of this run has returned.
AtBody(s) ==
    \/ pc[s] = "main"
    \/ cleanup_done[s] /\ pc[s] # "new" /\ PastSidebar(s)

\* The lock button that the sidebar of this run has rendered.
SidebarPage(s) ==
    IF pc[s] = "side"
    THEN [page EXCEPT ![s].sidebar = Shown(data[s].is_month_locked)]
    ELSE page

\* A handler at the top of the script that wrote nothing shows the warning w;
\* the rest of the run, or the rerun, is pending.
Pending(s, w) ==
    /\ pc' = [pc EXCEPT ![s] = "run"]
    /\ notice' = w
    /\ UNCHANGED <<data, behind, done>>

(* ------------------------------ __main__ -------------------------------- *)
\* Variant for C9: the flag is not set.
MarkDoneNever(flags, s) == flags

\* st.session_state.cleanup_done = True
MarkDone(flags, s) == [flags EXCEPT ![s] = TRUE]

\* if 'cleanup_done' not in st.session_state: a run of a session without the
\* flag, its first, calls cleanup_old_board_messages, which computes the
\* cutoff and sends its query; the answer is the documents to delete.
Open(s) ==
    /\ ~cleanup_done[s]
    /\ PastSidebar(s)
    /\ page' = SidebarPage(s)
    /\ data' = [data EXCEPT ![s] =
                  [old_messages |-> OldMessages(board, two_weeks_ago)]]
    /\ sweeps' = [sweeps EXCEPT ![s] = IF @ >= 2 THEN @ ELSE @ + 1]
    /\ pc' = [pc EXCEPT ![s] = "sweep"]
    /\ behind' = [behind EXCEPT ![s] = 0]
    /\ notice' = IF pc[s] \in {"new", "idle"} THEN "none" ELSE notice
    /\ UNCHANGED <<store, cache, now, admin_mode, user_name, current_date,
                   cleanup_done, done, report>>

\* The rest of cleanup_old_board_messages: the documents the query returned
\* are deleted in one batch (none: no commit); the cache is left alone. The
\* flag is set and the run goes on to the body of the page.
cleanup_old_board_messages(s) ==
    /\ pc[s] = "sweep"
    /\ board' = board \ data[s].old_messages
    /\ IF board' # board
       THEN Overtake(s, 4)
       ELSE /\ data' = [data EXCEPT ![s] = NoData]
            /\ UNCHANGED <<behind, done>>
    /\ cleanup_done' = MarkDone(cleanup_done, s)
    /\ pc' = [pc EXCEPT ![s] = "main"]
    /\ UNCHANGED <<events, day_status, month_locks, cache, now, admin_mode,
                   user_name, current_date, sweeps, page, notice, report>>

\* Time passes; the entries of the cache that reach the ttl expire.
Tick(t) ==
    /\ t > now
    /\ now' = t
    /\ cache' = [m \in Months |->
                   IF cache[m].at >= 0 /\ t - cache[m].at < TTL THEN cache[m]
                   ELSE NoEntry]
    /\ UNCHANGED <<store, pc, session, data, behind, done, page, notice, report>>

\* A run, the rest of a run or a rerun of a session that has given no name,
\* with no widget event left to handle: the name form is rendered.
RenderWelcome(s) ==
    /\ AtBody(s)
    /\ user_name[s] = << >>
    /\ page' = SidebarPage(s)
    /\ pc' = [pc EXCEPT ![s] = "idle"]
    /\ data' = [data EXCEPT ![s] = NoData]
    /\ behind' = [behind EXCEPT ![s] = 0]
    /\ notice' = IF pc[s] = "idle" THEN "none" ELSE notice
    /\ report' = IF pc[s] = "idle" THEN [report EXCEPT ![s] = NoReport]
                 ELSE report
    /\ UNCHANGED <<store, cache, now, session, done>>

(* ------------------------ show_welcome_and_name_input ------------------- *)
\* name.replace(" ", "").replace(<ideographic space>, ""); the character
\* U+3000 is written "u3000".
IsSpace(ch) == ch = " " \/ ch = "u3000"
StripSpaces(name) == SelectSeq(name, LAMBDA ch : ~IsSpace(ch))

\* The name form is submitted with the text typed. The page has the form once
\* the session's first run, the one that swept, has ended.
show_welcome_and_name_input(s, typed) ==
    /\ AtBody(s)
    /\ user_name[s] = << >>
    /\ pc[s] = "main" => admin_mode[s]
    /\ page' = SidebarPage(s)
    /\ data' = [data EXCEPT ![s] = NoData]
    /\ behind' = [behind EXCEPT ![s] = 0]
    /\ UNCHANGED <<store, cache, now, admin_mode, current_date, cleanup_done,
                   sweeps, done>>
    /\ IF typed # << >>
       THEN /\ user_name' = [user_name EXCEPT ![s] = StripSpaces(typed)]
            /\ pc' = [pc EXCEPT ![s] = "run"]
            /\ notice' = "none"
       ELSE /\ user_name' = user_name
            /\ pc' = [pc EXCEPT ![s] = "idle"]
            /\ notice' = "name_required"
    /\ report' = [report EXCEPT ![s] = NoReport]

(* ---------------------------- show_admin_sidebar ------------------------ *)
\* The login button, with the password typed.
Login(s, password) ==
    /\ pc[s] \in {"idle", "run"}
    /\ ~admin_mode[s]
    /\ password = AdminPassword => s \in AdminSessions
    /\ UNCHANGED <<store, cache, now, user_name, current_date, cleanup_done,
                   sweeps, page>>
    /\ IF password = AdminPassword
       THEN /\ admin_mode' = [admin_mode EXCEPT ![s] = TRUE]
            /\ Pending(s, "none")
       ELSE /\ admin_mode' = admin_mode
            /\ Pending(s, "bad_password")
    /\ report' = [report EXCEPT ![s] = NoReport]

\* The logout button.
Logout(s) ==
    /\ pc[s] \in {"idle", "run"}
    /\ admin_mode[s]
    /\ page[s].sidebar # "none"
    /\ page' = [page EXCEPT ![s].sidebar = "none"]
    /\ UNCHANGED <<store, cache, now, user_name, current_date, cleanup_done,
                   sweeps>>
    /\ admin_mode' = [admin_mode EXCEPT ![s] = FALSE]
    /\ Pending(s, "none")
    /\ report' = [report EXCEPT ![s] = NoReport]

\* The sidebar of an admin session calls get_firestore_data for the month
\* shown, to render the lock button.
BeginSidebar(s) ==
    /\ pc[s] \in {"idle", "run"}
    /\ admin_mode[s]
    /\ UNCHANGED <<store, now, session, page>>
    /\ Lookup(s, "side", "sget")
    /\ notice' = IF pc[s] = "run" THEN notice ELSE "none"
    /\ report' = IF pc[s] = "run" THEN report
                 ELSE [report EXCEPT ![s] = NoReport]

\* Variant for C17: the button writes the flag of every month.
ToggleLockEvery(s) ==
    LET is_month_locked == data[s].is_month_locked
    IN  /\ pc[s] = "side"
        /\ admin_mode[s]
        /\ page[s].sidebar = Shown(is_month_locked)
        /\ UNCHANGED <<events, day_status, board, now, session>>
        /\ month_locks' = [x \in Months |-> ~is_month_locked]
        /\ Written(s, 3)

\* The lock or unlock button of the sidebar: the one the page shows is clicked,
\* and it is handled when this run's read renders the same button.
ToggleLock(s) ==
    LET m == current_date[s]
        is_month_locked == data[s].is_month_locked
    IN  /\ pc[s] = "side"
        /\ admin_mode[s]
        /\ page[s].sidebar = Shown(is_month_locked)
        /\ UNCHANGED <<events, day_status, board, now, session>>
        /\ month_locks' = [month_locks EXCEPT ![m] = ~is_month_locked]
        /\ Written(s, 3)

(* ---------------------------- perform_aggregation ----------------------- *)
\* start_date <= date <= end_date on calendar dates <<year, month, day>>.
DateLE(a, b) ==
    \/ a[1] < b[1]
    \/ a[1] = b[1] /\ a[2] < b[2]
    \/ a[1] = b[1] /\ a[2] = b[2] /\ a[3] <= b[3]

\* Variant for C10: the held flag of the date is not looked at.
filtered_events_any(ev, ds, start_date, end_date) ==
    {e \in ev : DateLE(start_date, e.date) /\ DateLE(e.date, end_date)}

\* The list comprehension: in the range, and the date's isHeld is true.
filtered_events(ev, ds, start_date, end_date) ==
    {e \in ev : /\ DateLE(start_date, e.date)
                /\ DateLE(e.date, end_date)
                /\ ds[e.date]}

RECURSIVE SumOver(_, _)
SumOver(row, cols) ==
    IF cols = {} THEN 0
    ELSE LET c == CHOOSE x \in cols : TRUE
         IN  row[c] + SumOver(row, cols \ {c})

\* df.pivot_table(index='name', columns='month', values='uid',
\* aggfunc='count', fill_value=0) and the added sum column.
pivot_table(fe) ==
    LET index == {e.name : e \in fe}
        columns == {MonthOf(e.date) : e \in fe}
        count == [n \in index |-> [m \in columns |->
                    Cardinality({e \in fe : e.name = n /\ MonthOf(e.date) = m})]]
    IN  [index |-> index, columns |-> columns, count |-> count,
         total |-> [n \in index |-> SumOver(count[n], columns)]]

\* The aggregate button of the sidebar, with the two dates picked:
\* perform_aggregation streams the collection events.
StreamEvents(s, start_date, end_date) ==
    /\ pc[s] = "side"
    /\ admin_mode[s]
    /\ page[s].sidebar # "none"
    /\ page' = SidebarPage(s)
    /\ data' = [data EXCEPT ![s] = [all_events |-> events,
                                    start_date |-> start_date,
                                    end_date |-> end_date]]
    /\ pc' = [pc EXCEPT ![s] = "agg"]
    /\ behind' = [behind EXCEPT ![s] = 0]
    /\ notice' = "none"
    /\ report' = [report EXCEPT ![s] = NoReport]
    /\ UNCHANGED <<store, cache, now, session, done>>

\* The rest of perform_aggregation: the collection day_status is streamed,
\* the events are filtered and the table is shown; the run goes on.
perform_aggregation(s) ==
    LET fe == filtered_events(data[s].all_events, day_status,
                              data[s].start_date, data[s].end_date)
    IN  /\ pc[s] = "agg"
        /\ IF fe = {}
           THEN /\ notice' = "no_data"
                /\ report' = [report EXCEPT ![s] = NoReport]
           ELSE /\ notice' = "none"
                /\ report' = [report EXCEPT ![s] = pivot_table(fe)]
        /\ data' = [data EXCEPT ![s] = NoData]
        /\ pc' = [pc EXCEPT ![s] = "main"]
        /\ UNCHANGED <<store, cache, now, session, behind, done, page>>

(* ------------------------------ show_calendar --------------------------- *)
\* A script run, or the rerun pending, reaches show_calendar, which calls
\* get_firestore_data for the month shown.
BeginRun(s) ==
    /\ AtBody(s)
    /\ user_name[s] # << >>
    /\ page' = SidebarPage(s)
    /\ Lookup(s, "cal", "get")
    /\ notice' = IF pc[s] = "idle" THEN "none" ELSE notice
    /\ report' = IF pc[s] = "idle" THEN [report EXCEPT ![s] = NoReport]
                 ELSE report
    /\ UNCHANGED <<store, now, session>>

\* current_date +/- relativedelta(months=1)
AddMonths(m, k) ==
    LET n == m[1] * 12 + (m[2] - 1) + k
    IN  <<n \div 12, (n % 12) + 1>>

\* The previous-month and next-month buttons (k = -1, 1), handled after the
\* read of show_calendar: the month moves; the rerun is pending.
Navigate(s, k) ==
    LET new == AddMonths(current_date[s], k)
    IN  /\ pc[s] = "cal"
        /\ page[s].calendar # "none"
        /\ new \in Months
        /\ current_date' = [current_date EXCEPT ![s] = new]
        /\ pc' = [pc EXCEPT ![s] = "run"]
        /\ data' = [data EXCEPT ![s] = NoData]
        /\ behind' = [behind EXCEPT ![s] = 0]
        /\ notice' = "none"
        /\ report' = [report EXCEPT ![s] = NoReport]
        /\ UNCHANGED <<store, cache, now, admin_mode, user_name, cleanup_done,
                       sweeps, done, page>>

\* The calendar is rendered with the value read and no write was made:
\* w is the warning shown; show_board_and_info calls get_firestore_data.
BeginBoard(s, w) ==
    /\ page' = [page EXCEPT ![s].calendar = Shown(data[s].is_month_locked)]
    /\ Lookup(s, "board", "bget")
    /\ notice' = w
    /\ UNCHANGED report

\* The board form is rendered with the value read and the run ends; w is the
\* warning shown.
EndOfRun(s, w) ==
    /\ page' = [page EXCEPT ![s].board = Shown(data[s].is_month_locked)]
    /\ pc' = [pc EXCEPT ![s] = "idle"]
    /\ data' = [data EXCEPT ![s] = NoData]
    /\ behind' = [behind EXCEPT ![s] = 0]
    /\ notice' = w
    /\ UNCHANGED <<cache, done, report>>

\* Firestore names a new document with an id no other document has; the
\* model numbers the documents of one date and name, and takes the least
\* number that neither the store nor any read still held refers to.
Referenced ==
    events \cup UNION {data[s].events : s \in Holding}
           \cup UNION {data[s].all_events : s \in {x \in Sessions : pc[x] = "agg"}}
           \cup UNION {cache[m].value.events : m \in {x \in Months : cache[x].at >= 0}}

Least(S) == CHOOSE k \in S : \A j \in S : k <= j

new_event(date_str, name) ==
    [doc |-> Least({k \in 1..(4 * MaxEvents + 1) :
                      [doc |-> k, date |-> date_str, name |-> name] \notin Referenced}),
     date |-> date_str, name |-> name]

day_events(d, date_str) == {e \in d.events : e.date = date_str}

\* The held checkbox of a day, admin only; disabled on the page of a locked
\* month. new_is_held is the value the browser sends.
ToggleHeld(s, date_str, new_is_held) ==
    /\ pc[s] = "cal"
    /\ UNCHANGED <<events, month_locks, board, now, session>>
    /\ admin_mode[s]
    /\ MonthOf(date_str) = current_date[s]
    /\ page[s].calendar = "unlocked"
    /\ new_is_held # data[s].day_status[date_str]
    /\ day_status' = [day_status EXCEPT ![date_str] = new_is_held]
    /\ Written(s, 2)

\* Variant for C14: the name on the event is not looked at.
CanRemoveAnyone(s, d, event) == ~d.is_month_locked

\* Who is shown the delete button of an event.
CanRemove(s, d, event) ==
    (event.name = user_name[s] \/ admin_mode[s]) /\ ~d.is_month_locked

\* Variant for C11: the delete removes the date's events of the name.
RemoveByName(s, event) ==
    /\ pc[s] = "cal"
    /\ page[s].calendar = "unlocked"
    /\ UNCHANGED <<day_status, month_locks, board, now, session>>
    /\ event \in data[s].events
    /\ CanRemove(s, data[s], event)
    /\ events' = {e \in events : e.date # event.date \/ e.name # event.name}
    /\ Written(s, 1)

\* The delete button of an event: the document is deleted by its id.
Remove(s, event) ==
    /\ pc[s] = "cal"
    /\ page[s].calendar = "unlocked"
    /\ UNCHANGED <<day_status, month_locks, board, now, session>>
    /\ event \in data[s].events
    /\ CanRemove(s, data[s], event)
    /\ events' = events \ {event}
    /\ Written(s, 1)

\* When the add control of a day is rendered at all.
CanAdd(d, date_str) ==
    /\ d.day_status[date_str]
    /\ ~d.is_month_locked
    /\ Cardinality(day_events(d, date_str)) < MAX_SHIFTS_PER_DAY

\* Variant for C5: the proxy-add form checks the name typed for a duplicate.
AdminAddGuarded(s, date_str, admin_add_name) ==
    /\ pc[s] = "cal"
    /\ page[s].calendar = "unlocked"
    /\ UNCHANGED <<day_status, month_locks, board, now, session>>
    /\ MonthOf(date_str) = current_date[s]
    /\ CanAdd(data[s], date_str)
    /\ admin_mode[s]
    /\ IF /\ admin_add_name # << >>
          /\ \A e \in day_events(data[s], date_str) : e.name # admin_add_name
       THEN /\ Cardinality(events) < MaxEvents
            /\ events' = events \cup {new_event(date_str, admin_add_name)}
            /\ Written(s, 1)
       ELSE /\ UNCHANGED events
            /\ BeginBoard(s, "already_in")

\* The proxy-add form of a day (admin), with the name typed.
AdminAdd(s, date_str, admin_add_name) ==
    /\ pc[s] = "cal"
    /\ page[s].calendar = "unlocked"
    /\ UNCHANGED <<day_status, month_locks, board, now, session>>
    /\ MonthOf(date_str) = current_date[s]
    /\ CanAdd(data[s], date_str)
    /\ admin_mode[s]
    /\ IF admin_add_name # << >>
       THEN /\ Cardinality(events) < MaxEvents
            /\ events' = events \cup {new_event(date_str, admin_add_name)}
            /\ Written(s, 1)
       ELSE /\ UNCHANGED events
            /\ BeginBoard(s, "none")

\* any(e['name'] == st.session_state.user_name for e in day_events)
is_already_in(s, d, date_str) ==
    \E e \in day_events(d, date_str) : e.name = user_name[s]

\* The sign-up button of a day (not admin).
SelfAdd(s, date_str) ==
    /\ pc[s] = "cal"
    /\ page[s].calendar = "unlocked"
    /\ UNCHANGED <<day_status, month_locks, board, now, session>>
    /\ MonthOf(date_str) = current_date[s]
    /\ CanAdd(data[s], date_str)
    /\ ~admin_mode[s]
    /\ IF ~is_already_in(s, data[s], date_str)
       THEN /\ Cardinality(events) < MaxEvents
            /\ events' = events \cup {new_event(date_str, user_name[s])}
            /\ Written(s, 1)
       ELSE /\ UNCHANGED events
            /\ BeginBoard(s, "already_in")

(* --------------------------- show_board_and_info ------------------------ *)
BoardReferenced ==
    board \cup UNION {data[s].board_messages : s \in Holding}
          \cup UNION {data[s].old_messages :
                        s \in {x \in Sessions : pc[x] = "sweep"}}
          \cup UNION {cache[m].value.board_messages :
                        m \in {x \in Months : cache[x].at >= 0}}

\* timestamp is firestore.SERVER_TIMESTAMP.
new_message(month_id, name, message) ==
    LET msg(k) == [doc |-> k, month |-> month_id, name |-> name,
                   message |-> message, timestamp |-> now]
    IN  msg(Least({k \in 1..(4 * MaxMsgs + 1) : msg(k) \notin BoardReferenced}))

\* Variant for C13: the board form writes whatever was typed.
PostUnchecked(s, name_input, message_input) ==
    /\ pc[s] = "board"
    /\ UNCHANGED <<events, day_status, month_locks, now, session>>
    /\ page[s].board = "unlocked"
    /\ Cardinality(board) < MaxMsgs
    /\ board' = board \cup {new_message(current_date[s], name_input, message_input)}
    /\ Written(s, 4)

\* The board form, disabled on the page of a locked month, with the name and
\* the message typed.
Post(s, name_input, message_input) ==
    /\ pc[s] = "board"
    /\ UNCHANGED <<events, day_status, month_locks, now, session>>
    /\ page[s].board = "unlocked"
    /\ IF name_input # << >> /\ message_input # << >>
       THEN /\ Cardinality(board) < MaxMsgs
            /\ board' = board \cup {new_message(current_date[s], name_input,
                                                 message_input)}
            /\ Written(s, 4)
       ELSE /\ UNCHANGED board
            /\ EndOfRun(s, "board_required")

\* A run that handles no widget of the calendar, or whose widget is no
\* longer rendered, goes on to the board.
Refresh(s) ==
    /\ pc[s] = "cal"
    /\ UNCHANGED <<store, now, session>>
    /\ BeginBoard(s, notice)

\* A run that handles no widget of the board form renders the page to its end.
Finish(s) ==
    /\ pc[s] = "board"
    /\ UNCHANGED <<store, now, session>>
    /\ EndOfRun(s, notice)

(* ------------------------------ specification --------------------------- *)
Next ==
    \/ \E s \in Sessions : Open(s)
    \/ \E s \in Sessions : cleanup_old_board_messages(s)
    \/ \E t \in Times : Tick(t)
    \/ \E s \in Sessions, typed \in WelcomeInputs : show_welcome_and_name_input(s, typed)
    \/ \E s \in Sessions, password \in Passwords : Login(s, password)
    \/ \E s \in Sessions : RenderWelcome(s)
    \/ \E s \in Sessions : Logout(s)
    \/ \E s \in Sessions : ToggleLock(s)
    \/ \E s \in Sessions, a \in Dates, b \in Dates : StreamEvents(s, a, b)
    \/ \E s \in Sessions : perform_aggregation(s)
    \/ \E s \in Sessions, k \in {-1, 1} : Navigate(s, k)
    \/ \E s \in Sessions : BeginSidebar(s)
    \/ \E s \in Sessions : BeginRun(s)
    \/ \E s \in Sessions : Return(s)
    \/ \E s \in Sessions, d \in Dates, v \in BOOLEAN : ToggleHeld(s, d, v)
    \/ \E s \in Sessions, e \in Referenced : Remove(s, e)
    \/ \E s \in Sessions, d \in Dates, n \in ProxyInputs : AdminAdd(s, d, n)
    \/ \E s \in Sessions, d \in Dates : SelfAdd(s, d)
    \/ \E s \in Sessions, n \in BoardInputs, t \in MessageInputs : Post(s, n, t)
    \/ \E s \in Sessions : ClearAndRerun(s)
    \/ \E s \in Sessions : Refresh(s)
    \/ \E s \in Sessions : Finish(s)

Spec == Init /\ [][Next]_vars

\* Two sessions at one day cell of the month of the first page load: no
\* navigation, no month lock, no board posts, no aggregation, the clock
\* stands still.
RaceDates == {<<2024, 3, 1>>}

NextCalendar ==
    \/ \E s \in Sessions : Open(s)
    \/ \E s \in Sessions : cleanup_old_board_messages(s)
    \/ \E s \in Sessions, typed \in WelcomeInputs : show_welcome_and_name_input(s, typed)
    \/ \E s \in Sessions : Login(s, AdminPassword)
    \/ \E s \in Sessions : RenderWelcome(s)
    \/ \E s \in Sessions : BeginSidebar(s)
    \/ \E s \in Sessions : BeginRun(s)
    \/ \E s \in Sessions : Return(s)
    \/ \E s \in Sessions, d \in RaceDates, v \in BOOLEAN : ToggleHeld(s, d, v)
    \/ \E s \in Sessions, e \in Referenced : Remove(s, e)
    \/ \E s \in Sessions, d \in RaceDates, n \in ProxyInputs : AdminAdd(s, d, n)
    \/ \E s \in Sessions, d \in RaceDates : SelfAdd(s, d)
    \/ \E s \in Sessions : ClearAndRerun(s)
    \/ \E s \in Sessions : Refresh(s)
    \/ \E s \in Sessions : Finish(s)

SpecCalendar == Init /\ [][NextCalendar]_vars

\* The sessions that remove signups while the admin locks and unlocks the
\* month: the signups are the admin's proxy-adds.
NextRemoval ==
    \/ \E s \in Sessions : Open(s)
    \/ \E s \in Sessions : cleanup_old_board_messages(s)
    \/ \E s \in Sessions, typed \in WelcomeInputs : show_welcome_and_name_input(s, typed)
    \/ \E s \in Sessions : Login(s, AdminPassword)
    \/ \E s \in Sessions : RenderWelcome(s)
    \/ \E s \in Sessions : ToggleLock(s)
    \/ \E s \in Sessions : BeginSidebar(s)
    \/ \E s \in Sessions : BeginRun(s)
    \/ \E s \in Sessions : Return(s)
    \/ \E s \in Sessions, d \in RaceDates, v \in BOOLEAN : ToggleHeld(s, d, v)
    \/ \E s \in Sessions, e \in Referenced : Remove(s, e)
    \/ \E s \in Sessions, d \in RaceDates, n \in ProxyInputs : AdminAdd(s, d, n)
    \/ \E s \in Sessions : ClearAndRerun(s)
    \/ \E s \in Sessions : Refresh(s)
    \/ \E s \in Sessions : Finish(s)

SpecRemoval == Init /\ [][NextRemoval]_vars

\* The board, the locks and the retention sweep over time: no signups, the
\* sessions move forward through the months, the admin stays logged in. The
\* clock visits a day after the first page load and fourteen days after that.
BoardTimes == {Day, 15 * Day}

NextBoard ==
    \/ \E s \in Sessions : Open(s)
    \/ \E s \in Sessions : cleanup_old_board_messages(s)
    \/ \E t \in BoardTimes : Tick(t)
    \/ \E s \in Sessions, typed \in WelcomeInputs : show_welcome_and_name_input(s, typed)
    \/ \E s \in Sessions : Login(s, AdminPassword)
    \/ \E s \in Sessions : RenderWelcome(s)
    \/ \E s \in Sessions : ToggleLock(s)
    \/ \E s \in Sessions, k \in {1} : Navigate(s, k)
    \/ \E s \in Sessions : BeginSidebar(s)
    \/ \E s \in Sessions : BeginRun(s)
    \/ \E s \in Sessions : Return(s)
    \/ \E s \in Sessions, n \in BoardInputs, t \in MessageInputs : Post(s, n, t)
    \/ \E s \in Sessions : ClearAndRerun(s)
    \/ \E s \in Sessions : Refresh(s)
    \/ \E s \in Sessions : Finish(s)

SpecBoard == Init /\ [][NextBoard]_vars

\* One session at the day cells of the month of the first page load.
Solo == {"s1"}
SoloDates == {<<2024, 3, 1>>, <<2024, 3, 2>>}

NextDays ==
    \/ \E s \in Solo : Open(s)
    \/ \E s \in Solo : cleanup_old_board_messages(s)
    \/ \E s \in Solo, typed \in WelcomeInputs : show_welcome_and_name_input(s, typed)
    \/ \E s \in Solo, password \in Passwords : Login(s, password)
    \/ \E s \in Solo : RenderWelcome(s)
    \/ \E s \in Solo : Logout(s)
    \/ \E s \in Solo : ToggleLock(s)
    \/ \E s \in Solo : BeginSidebar(s)
    \/ \E s \in Solo : BeginRun(s)
    \/ \E s \in Solo : Return(s)
    \/ \E s \in Solo, d \in SoloDates, v \in BOOLEAN : ToggleHeld(s, d, v)
    \/ \E s \in Solo, e \in Referenced : Remove(s, e)
    \/ \E s \in Solo, d \in SoloDates, n \in ProxyInputs : AdminAdd(s, d, n)
    \/ \E s \in Solo, d \in SoloDates : SelfAdd(s, d)
    \/ \E s \in Solo : ClearAndRerun(s)
    \/ \E s \in Solo : Refresh(s)
    \/ \E s \in Solo : Finish(s)

SpecDays == Init /\ [][NextDays]_vars

\* The aggregation as a function of the store and of the range: the store is
\* drawn from the stores the admin's adds and held toggles lead to, and the
\* admin's session has rendered its page.
EventPool ==
    {[doc |-> 1, date |-> d, name |-> n] : d \in Dates, n \in {<<"a">>, <<"b">>}}
        \cup {[doc |-> 2, date |-> <<2024, 3, 1>>, name |-> <<"a">>]}

InitReport ==
    /\ events \in {E \in SUBSET EventPool : Cardinality(E) <= MaxEvents}
    /\ day_status \in [Dates -> BOOLEAN]
    /\ month_locks = [m \in Months |-> FALSE]
    /\ board = {}
    /\ now = 0
    /\ cache = [Cleared EXCEPT ![ThisMonth] =
                  [at |-> 0, value |-> Fetch(events, day_status, month_locks,
                                             board, ThisMonth)]]
    /\ pc = [s \in Sessions |-> IF s \in Solo THEN "idle" ELSE "new"]
    /\ admin_mode = [s \in Sessions |-> s \in Solo]
    /\ user_name = [s \in Sessions |-> IF s \in Solo THEN <<"a">> ELSE << >>]
    /\ current_date = [s \in Sessions |-> ThisMonth]
    /\ cleanup_done = [s \in Sessions |-> s \in Solo]
    /\ sweeps = [s \in Sessions |-> IF s \in Solo THEN 1 ELSE 0]
    /\ data = [s \in Sessions |-> NoData]
    /\ behind = [s \in Sessions |-> 0]
    /\ done = [s \in Sessions |-> 0]
    /\ page = [s \in Sessions |-> IF s \in Solo THEN RenderedUnlocked ELSE NoPage]
    /\ notice = "none"
    /\ report = [s \in Sessions |-> NoReport]

NextReport ==
    \/ \E s \in Solo, a \in Dates, b \in Dates : StreamEvents(s, a, b)
    \/ \E s \in Solo : perform_aggregation(s)
    \/ \E s \in Solo : BeginSidebar(s)
    \/ \E s \in Solo : BeginRun(s)
    \/ \E s \in Solo : Refresh(s)
    \/ \E s \in Solo : Finish(s)

SpecReport == InitReport /\ [][NextReport]_vars

\* One session at the board and the locks over time, and visitors who only
\* open the application.
NextSweep ==
    \/ \E s \in Sessions : Open(s)
    \/ \E s \in Sessions : cleanup_old_board_messages(s)
    \/ \E t \in Times : Tick(t)
    \/ \E s \in Solo, typed \in WelcomeInputs : show_welcome_and_name_input(s, typed)
    \/ \E s \in Solo, password \in Passwords : Login(s, password)
    \/ \E s \in Solo : RenderWelcome(s)
    \/ \E s \in Solo : ToggleLock(s)
    \/ \E s \in Solo, k \in {-1, 1} : Navigate(s, k)
    \/ \E s \in Solo : BeginSidebar(s)
    \/ \E s \in Solo : BeginRun(s)
    \/ \E s \in Solo : Return(s)
    \/ \E s \in Solo, n \in BoardInputs, t \in MessageInputs : Post(s, n, t)
    \/ \E s \in Solo : ClearAndRerun(s)
    \/ \E s \in Solo : Refresh(s)
    \/ \E s \in Solo : Finish(s)

SpecSweep == Init /\ [][NextSweep]_vars

\* One session at every form of the application, on one day cell of the month
\* of the first page load; the clock stands still.
NextForms ==
    \/ \E s \in Solo : Open(s)
    \/ \E s \in Solo : cleanup_old_board_messages(s)
    \/ \E s \in Solo, typed \in WelcomeInputs : show_welcome_and_name_input(s, typed)
    \/ \E s \in Solo, password \in Passwords : Login(s, password)
    \/ \E s \in Solo : RenderWelcome(s)
    \/ \E s \in Solo : Logout(s)
    \/ \E s \in Solo : ToggleLock(s)
    \/ \E s \in Solo, a \in Dates, b \in Dates : StreamEvents(s, a, b)
    \/ \E s \in Solo : perform_aggregation(s)
    \/ \E s \in Solo : BeginSidebar(s)
    \/ \E s \in Solo : BeginRun(s)
    \/ \E s \in Solo : Return(s)
    \/ \E s \in Solo, d \in RaceDates, v \in BOOLEAN : ToggleHeld(s, d, v)
    \/ \E s \in Solo, e \in Referenced : Remove(s, e)
    \/ \E s \in Solo, d \in RaceDates, n \in ProxyInputs : AdminAdd(s, d, n)
    \/ \E s \in Solo, d \in RaceDates : SelfAdd(s, d)
    \/ \E s \in Solo, n \in BoardInputs, t \in MessageInputs : Post(s, n, t)
    \/ \E s \in Solo : ClearAndRerun(s)
    \/ \E s \in Solo : Refresh(s)
    \/ \E s \in Solo : Finish(s)

SpecForms == Init /\ [][NextForms]_vars

\* One session, admin, over the two months: signups, held flags, board posts
\* and the locks; the clock stands still.
LockDates == {<<2024, 3, 1>>, <<2024, 4, 1>>}

NextLocks ==
    \/ \E s \in Solo : Open(s)
    \/ \E s \in Solo : cleanup_old_board_messages(s)
    \/ \E s \in Solo, typed \in WelcomeInputs : show_welcome_and_name_input(s, typed)
    \/ \E s \in Solo, password \in Passwords : Login(s, password)
    \/ \E s \in Solo : RenderWelcome(s)
    \/ \E s \in Solo : ToggleLock(s)
    \/ \E s \in Solo, k \in {-1, 1} : Navigate(s, k)
    \/ \E s \in Solo : BeginSidebar(s)
    \/ \E s \in Solo : BeginRun(s)
    \/ \E s \in Solo : Return(s)
    \/ \E s \in Solo, d \in LockDates, v \in BOOLEAN : ToggleHeld(s, d, v)
    \/ \E s \in Solo, d \in LockDates, n \in ProxyInputs : AdminAdd(s, d, n)
    \/ \E s \in Solo, n \in BoardInputs, t \in MessageInputs : Post(s, n, t)
    \/ \E s \in Solo : ClearAndRerun(s)
    \/ \E s \in Solo : Refresh(s)
    \/ \E s \in Solo : Finish(s)

SpecLocks == Init /\ [][NextLocks]_vars

(* ================================ claims ================================ *)
EventsOn(ev, d) == {e \in ev : e.date = d}
EventsOf(ev, m) == {e \in ev : MonthOf(e.date) = m}
DatesOf(m) == {d \in Dates : MonthOf(d) = m}
MessagesOf(bd, m) == {b \in bd : b.month = m}

\* C1: in every reachable state, whatever adds the sessions have issued in
\* whatever interleaving, no date has more than MAX_SHIFTS_PER_DAY signup
\* events in the store.
C1_AtMostThreePerDay ==
    \A d \in Dates : Cardinality(EventsOn(events, d)) <= MAX_SHIFTS_PER_DAY

\* C2: while the lock flag of a month is true in the store, no step of any
\* session (the retention sweep included) creates or deletes a signup event of
\* the month, changes the held flag of one of its days, or creates or deletes
\* one of its board messages.
C2_LockedMonthIsFrozen ==
    [][\A m \in Months :
         month_locks[m] =>
           /\ EventsOf(events', m) = EventsOf(events, m)
           /\ \A d \in DatesOf(m) : day_status'[d] = day_status[d]
           /\ MessagesOf(board', m) = MessagesOf(board, m)]_vars

\* C3: in every reachable state in which no handler is between its write and
\* its clear(), so after every mutating operation (the retention sweep's
\* deletion included), a call of the month data reader returns, for every
\* month, the current contents of the store.
C3_ReadIsCurrent ==
    (\A s \in Sessions : pc[s] # "wrote") =>
        \A m \in Months :
            get_firestore_data(cache, events, day_status, month_locks, board, m)
                = Fetch(events, day_status, month_locks, board, m)

\* C8: a retention sweep run at time now selects exactly the board messages
\* with now - timestamp >= 14 days, of all months, and its batch deletes
\* them and leaves the others.
C8_SweepDeletesFromFourteenDays ==
    [][\A s \in Sessions :
         /\ Open(s) =>
              data'[s].old_messages
                  = {b \in board : now - b.timestamp >= TwoWeeks}
         /\ (pc[s] = "sweep" /\ cleanup_old_board_messages(s)) =>
              board' = board \ data[s].old_messages]_vars

\* The read of the running script of session s is the store's current content
\* of the month shown: no other session has written since.
Fresh(s) ==
    /\ pc[s] = "cal"
    /\ data[s] = Fetch(events, day_status, month_locks, board, current_date[s])

\* C4: a self-service add by a session named u on a date that already has an
\* event named u in the store writes no event, and the run shows the warning.
C4_SelfAddRejectsDuplicate ==
    [][\A s \in Sessions, d \in Dates :
         (/\ \E e \in EventsOn(events, d) : e.name = user_name[s]
          /\ SelfAdd(s, d))
            => events' = events /\ notice' = "already_in"]_vars

\* C5: an admin proxy-add with a non-empty name u, on a date that is held,
\* unlocked and has fewer than MAX_SHIFTS_PER_DAY events, creates exactly one
\* new event, on that date and named u, whether or not the date has an event
\* named u already.
C5_ProxyAddAlwaysCreates ==
    [][\A s \in Sessions, d \in Dates, u \in ProxyInputs \ {<< >>} :
         AdminAdd(s, d, u) =>
            /\ events \subseteq events'
            /\ Cardinality(events' \ events) = 1
            /\ \A e \in events' \ events : e.date = d /\ e.name = u]_vars

C5_TwoOfOneName ==
    \E e1 \in events, e2 \in events :
        /\ e1 # e2
        /\ e1.date = e2.date
        /\ e1.name = <<"b">>
        /\ e2.name = <<"b">>

\* C6: every removal of a signup event happens while the lock flag of the
\* event's month is false in the store, by a session that is named as the
\* event or is admin, and deletes that event only: a non-admin never removes
\* an event carrying another name, and nobody removes when the month is locked.
C6_RemoveOwnOrAdminUnlocked ==
    [][\A s \in Sessions, e \in events :
         Remove(s, e) =>
            /\ ~month_locks[MonthOf(e.date)]
            /\ (e.name = user_name[s] \/ admin_mode[s])
            /\ events' = events \ {e}]_vars

\* C7: the capacity cap is absolute: a signup event, self-service or proxy,
\* is written only on a date that has fewer than MAX_SHIFTS_PER_DAY events
\* in the store; an add attempted on a date at the cap writes nothing.
C7_NoAddAtTheCap ==
    [][\A e \in events' \ events :
         Cardinality(EventsOn(events, e.date)) < MAX_SHIFTS_PER_DAY]_vars

\* C9: within one session the retention sweep runs at most once, whatever the
\* session does, and the session's flag, once set, stays set.
C9_SweepOncePerSession ==
    [][\A s \in Sessions :
         /\ sweeps'[s] <= 1
         /\ cleanup_done[s] => cleanup_done'[s]]_vars

C9_SweptAndBusy ==
    \E s \in Sessions :
        /\ sweeps[s] = 1
        /\ cleanup_done[s]
        /\ admin_mode[s]
        /\ user_name[s] # << >>
        /\ current_date[s] # ThisMonth
        /\ board # {}
        /\ now >= 15 * Day

\* C10: the aggregation over [start_date, end_date] counts an event exactly
\* when its date lies in the range and the date is held in the store; the
\* table has a row for each name counted, each cell is the number of counted
\* events of the name in the month, and the total of a row is the sum of its
\* cells and the number of counted events of the name. The events are those
\* the aggregation streamed, no session having written between its streams.
C10_AggregationCountsHeldInRange ==
    [][\A s \in Sessions, a \in Dates, b \in Dates :
         (/\ pc[s] = "agg"
          /\ data[s].all_events = events
          /\ data[s].start_date = a
          /\ data[s].end_date = b
          /\ perform_aggregation(s)) =>
            LET counted == {e \in events : /\ DateLE(a, e.date)
                                           /\ DateLE(e.date, b)
                                           /\ day_status[e.date]}
                r == report'[s]
            IN  IF counted = {}
                THEN r = NoReport /\ notice' = "no_data"
                ELSE /\ r.index = {e.name : e \in counted}
                     /\ r.columns = {MonthOf(e.date) : e \in counted}
                     /\ \A n \in r.index :
                          /\ \A m \in r.columns :
                               r.count[n][m] = Cardinality(
                                   {e \in counted : e.name = n /\ MonthOf(e.date) = m})
                          /\ r.total[n] = SumOver(r.count[n], r.columns)
                          /\ r.total[n] = Cardinality({e \in counted : e.name = n})]_vars

C10_ReportLeavesOut ==
    \E s \in Sessions :
        /\ report[s] # NoReport
        /\ Cardinality(report[s].columns) = 2
        /\ \E n \in report[s].index : report[s].total[n] = 2
        /\ \E e \in events : ~day_status[e.date]
        /\ \E n \in report[s].index :
             report[s].total[n] < Cardinality({e \in events : e.name = n})

\* C11: an add puts exactly one event, which the store did not hold, on its
\* date, and the removal of an event of the store takes exactly that event
\* away, so that removing the signup just added gives back the date's events
\* as they were; neither touches the events of other dates, the held flags,
\* the locks or the board.
C11_AddThenRemoveRestores ==
    [][\A s \in Sessions, d \in Dates :
         /\ (SelfAdd(s, d) \/ \E u \in ProxyInputs : AdminAdd(s, d, u))
              => /\ events \subseteq events'
                 /\ Cardinality(events' \ events) <= 1
                 /\ \A e \in events' \ events :
                      /\ e.date = d
                      /\ events' \ {e} = events
                 /\ UNCHANGED <<day_status, month_locks, board>>
         /\ \A e \in EventsOn(events, d) :
              Remove(s, e)
                => /\ e \notin events'
                   /\ events' \cup {e} = events
                   /\ EventsOn(events', d) = EventsOn(events, d) \ {e}
                   /\ UNCHANGED <<day_status, month_locks, board>>]_vars

C11_RemovableAmongOthers ==
    \E s \in Sessions, e1 \in events, e2 \in events, e3 \in events :
        /\ Fresh(s)
        /\ CanRemove(s, data[s], e1)
        /\ e2 # e1 /\ e2.date = e1.date /\ e2.name = e1.name
        /\ e3.date # e1.date

\* C12: for a session that is not admin and whose read is current, a day
\* whose held flag is false is read-only: no step of the session adds a
\* signup on that day or removes one from it.
C12_UnheldDayIsReadOnly ==
    [][\A s \in Sessions, d \in Dates :
         (Fresh(s) /\ ~admin_mode[s] /\ ~day_status[d])
            => /\ ~SelfAdd(s, d)
               /\ \A e \in EventsOn(events, d) : ~Remove(s, e)]_vars

\* C13: a validation failure (the name form submitted empty, the board form
\* with an empty name or message, the proxy-add form with an empty name, a
\* duplicate self-service signup, a wrong admin password, an aggregation that
\* matches no event) writes nothing to the store and leaves the admin flags
\* and the display names as they were.
C13_ValidationFailureChangesNothing ==
    [][\A s \in Sessions :
         (\/ show_welcome_and_name_input(s, << >>)
          \/ \E n \in BoardInputs, t \in MessageInputs :
                (n = << >> \/ t = << >>) /\ Post(s, n, t)
          \/ \E d \in Dates : AdminAdd(s, d, << >>)
          \/ \E d \in Dates :
                pc[s] = "cal" /\ is_already_in(s, data[s], d) /\ SelfAdd(s, d)
          \/ \E password \in Passwords \ {AdminPassword} : Login(s, password)
          \/ /\ pc[s] = "agg"
             /\ filtered_events(data[s].all_events, day_status,
                                 data[s].start_date, data[s].end_date) = {}
             /\ perform_aggregation(s))
            => UNCHANGED <<events, day_status, month_locks, board,
                           admin_mode, user_name>>]_vars

C13_WarnedWithStoreIntact ==
    /\ notice \in {"board_required", "already_in", "bad_password", "no_data"}
    /\ events # {}
    /\ board # {}
    /\ \E d \in Dates : day_status[d]

\* C14: the admin flag of every session starts false; a step that toggles a
\* held flag, toggles the month lock, proxy-adds a signup, removes a signup
\* carrying another name or runs the aggregation is a step of a session whose
\* admin flag is true; the flag becomes true only in a login with the
\* configured password and becomes false in, and only in, a logout.
C14_PrivilegedOnlyForAdmin ==
    /\ \A s \in Sessions : ~admin_mode[s]
    /\ [][\A s \in Sessions :
            /\ (\/ \E d \in Dates, v \in BOOLEAN : ToggleHeld(s, d, v)
                \/ ToggleLock(s)
                \/ \E d \in Dates, u \in ProxyInputs : AdminAdd(s, d, u)
                \/ \E e \in events : e.name # user_name[s] /\ Remove(s, e)
                \/ \E a \in Dates, b \in Dates : StreamEvents(s, a, b)
                \/ perform_aggregation(s))
                 => admin_mode[s]
            /\ (~admin_mode[s] /\ admin_mode'[s]) => Login(s, AdminPassword)
            /\ (admin_mode[s] /\ ~admin_mode'[s]) => Logout(s)
            /\ Logout(s) => ~admin_mode'[s]]_vars

C14_AfterLogout ==
    \E s \in Sessions :
        /\ Fresh(s)
        /\ ~admin_mode[s]
        /\ user_name[s] = <<"a">>
        /\ month_locks[current_date[s]] = FALSE
        /\ \E d \in Dates : ~day_status[d] /\ \E e \in EventsOn(events, d) : e.name = <<"b">>

\* The calendar months that the range [a, b] covers, among those modelled.
MonthsCovered(a, b) ==
    {m \in Months : /\ DateLE(<<MonthOf(a)[1], MonthOf(a)[2], 1>>, <<m[1], m[2], 1>>)
                    /\ DateLE(<<m[1], m[2], 1>>, <<MonthOf(b)[1], MonthOf(b)[2], 1>>)}

\* C15: the table the aggregation displays has one count column for every
\* calendar month the range covers, a covered month without a counted event
\* being a column of zeros.
C15_ColumnForEveryMonthInRange ==
    [][\A s \in Sessions, a \in Dates, b \in Dates :
         (/\ pc[s] = "agg"
          /\ data[s].start_date = a
          /\ data[s].end_date = b
          /\ perform_aggregation(s)
          /\ report'[s] # NoReport)
            => /\ report'[s].columns = MonthsCovered(a, b)
               /\ \A n \in report'[s].index, m \in MonthsCovered(a, b) :
                    report'[s].count[n][m] =
                        Cardinality({e \in filtered_events(data[s].all_events,
                                                          day_status, a, b) :
                                       e.name = n /\ MonthOf(e.date) = m})]_vars

\* C16: every signup event, self-service or proxy, is written at a moment
\* when the held flag of its date is true in the store.
C16_AddOnlyOnHeldDate ==
    [][\A e \in events' \ events : day_status[e.date]]_vars

\* C17: an admin session between two runs can toggle the lock of the month it
\* views, whether that month is locked or not: its page shows the button of
\* the month's flag, the run that handles the click can begin, and the click
\* is handled once the sidebar of that run has read the flag shown; the toggle
\* negates the lock flag of that month (so that locking and then unlocking
\* gives back the store as it was) and leaves the flags of the other months,
\* the events, the held flags and the board messages unchanged.
C17_LockToggleChangesOneFlag ==
    [][\A s \in Sessions :
         /\ (pc[s] = "idle" /\ admin_mode[s]) =>
              /\ page[s].sidebar = Shown(month_locks[current_date[s]])
              /\ ENABLED BeginSidebar(s)
         /\ (pc[s] = "side" /\ page[s].sidebar = Shown(month_locks[current_date[s]])) =>
              ENABLED ToggleLock(s)
         /\ ToggleLock(s) =>
              /\ month_locks'[current_date[s]] = ~month_locks[current_date[s]]
              /\ \A m \in Months \ {current_date[s]} :
                   month_locks'[m] = month_locks[m]
              /\ UNCHANGED <<events, day_status, board>>]_vars

C17_OtherMonthStaysLocked ==
    \E s \in Sessions :
        /\ pc[s] = "idle"
        /\ admin_mode[s]
        /\ current_date[s] = ThisMonth
        /\ ~month_locks[ThisMonth]
        /\ \E m \in Months \ {ThisMonth} :
             /\ month_locks[m]
             /\ EventsOf(events, m) # {}
             /\ MessagesOf(board, m) # {}
        /\ EventsOf(events, ThisMonth) # {}
        /\ \E d \in Dates : day_status[d]

=============================================================================
